---- MODULE Spec2Model ----
(***************************************************************************)
(* Model of the chunked download helper of docs/basics/download_nwb.ipynb: *)
(* MAX_CHUNK_SIZE, get_download_file_iter_with_steps, its inner generator  *)
(* downloader, and download_with_progressbar.  The HTTP server, the        *)
(* streaming transport and the file system are the environment: each of    *)
(* their answers is a nondeterministic choice at the point where the code  *)
(* calls them.                                                             *)
(***************************************************************************)
EXTENDS Integers, Sequences, FiniteSets, TLC

(* ---------------------------- bounds ----------------------------------- *)
\* longest resource body, in bytes
MaxLen == 3
\* largest chunk size set through the environment or passed as an argument
MaxChunk == 2

(* --------------------------- constants --------------------------------- *)
\* the default of os.environ.get("DANDI_MAX_CHUNK_SIZE", 1024 * 1024 * 8)
DefaultChunkSize == 1024 * 1024 * 8

\* Python's None (steps_dict["total_steps"], headers, an unset argument)
None == "None"

Bytes == {"a", "b"}

Digits == <<"0", "1", "2", "3", "4", "5", "6", "7", "8", "9">>

(* --------------------------- pure helpers ------------------------------ *)
Min(a, b) == IF a <= b THEN a ELSE b

\* all byte strings of length at most n
BytesUpTo(n) == UNION {[1..k -> Bytes] : k \in 0..n}

RECURSIVE Flatten(_)
\* b"".join(chunks)
Flatten(chunks) ==
    IF chunks = <<>> THEN <<>> ELSE Head(chunks) \o Flatten(Tail(chunks))

IsPrefix(p, s) == Len(p) <= Len(s) /\ SubSeq(s, 1, Len(p)) = p

DigitValue(ch) == (CHOOSE i \in 1..10 : Digits[i] = ch) - 1

IsDigit(ch) == \E i \in 1..10 : Digits[i] = ch

RECURSIVE DecStr(_)
\* str(n) for n >= 0, as a sequence of characters
DecStr(n) ==
    IF n < 10 THEN <<Digits[n + 1]>>
    ELSE DecStr(n \div 10) \o <<Digits[(n % 10) + 1]>>

\* str(n) for any integer
IntStr(n) == IF n < 0 THEN <<"-">> \o DecStr(0 - n) ELSE DecStr(n)

RECURSIVE DigitsValue(_, _)
DigitsValue(s, acc) ==
    IF s = <<>> THEN acc
    ELSE DigitsValue(Tail(s), acc * 10 + DigitValue(Head(s)))

\* int(s) of a character string: an optional sign and at least one digit,
\* anything else is a ValueError
ParseInt(s) ==
    LET neg  == s # <<>> /\ Head(s) = "-"
        body == IF s # <<>> /\ Head(s) \in {"-", "+"} THEN Tail(s) ELSE s
    IN  IF body # <<>> /\ \A i \in 1..Len(body) : IsDigit(body[i])
        THEN [ok |-> TRUE,
              val |-> IF neg THEN 0 - DigitsValue(body, 0)
                      ELSE DigitsValue(body, 0)]
        ELSE [ok |-> FALSE, val |-> 0]

\* Python's a // b for a >= 0 and b # 0 (rounds towards minus infinity)
FloorDiv(a, b) ==
    IF b > 0 THEN a \div b
    ELSE 0 - ((a + (0 - b) - 1) \div (0 - b))

(* ------------------------- the environment ----------------------------- *)
\* the values DANDI_MAX_CHUNK_SIZE can carry when the module is loaded
EnvValues ==
    {[set |-> FALSE, val |-> <<>>]}
    \cup {[set |-> TRUE, val |-> IntStr(n)] : n \in (0 - 1)..MaxChunk}
    \cup {[set |-> TRUE, val |-> <<"x">>]}

\* the body the server sends with an error status
ErrorBody == <<"a", "b">>

\* the remote files a call can be given: what the server holds at the
\* download URL and whether its responses carry a content-length header
Files ==
    {[status |-> 200, data |-> d, hasLength |-> h] :
        d \in BytesUpTo(MaxLen), h \in BOOLEAN}
    \cup {[status |-> 404, data |-> <<>>, hasLength |-> h] : h \in BOOLEAN}

\* chunk_size arguments a caller passes explicitly
ChunkArgs == (0 - 1)..MaxChunk

RangePrefix == <<"b", "y", "t", "e", "s", "=">>

\* the server's reading of a "bytes=<n>-" Range value: the first byte position
ParseRange(v) ==
    LET n == Len(RangePrefix)
    IN  IF Len(v) > n + 1 /\ SubSeq(v, 1, n) = RangePrefix /\ v[Len(v)] = "-"
        THEN ParseInt(SubSeq(v, n + 1, Len(v) - 1))
        ELSE [ok |-> FALSE, val |-> 0]

HasRange(hdrs) == hdrs # <<>> /\ hdrs[1][1] = "Range"

\* session.get(url, stream=True, headers=hdrs) as answered by the server:
\* the whole resource for a plain GET, the bytes from the requested position
\* for a satisfiable Range, 416 for a Range starting at or after the end
ServerResponse(f, hdrs) ==
    IF f.status # 200 THEN [status |-> f.status, body |-> ErrorBody]
    ELSE IF HasRange(hdrs) /\ ParseRange(hdrs[1][2]).ok
    THEN LET s == ParseRange(hdrs[1][2]).val
         IN  IF s >= Len(f.data) THEN [status |-> 416, body |-> <<>>]
             ELSE [status |-> 206,
                   body |-> SubSeq(f.data, s + 1, Len(f.data))]
    ELSE [status |-> 200, body |-> f.data]

\* result.headers of the first request: content-length, when present, is the
\* decimal length of the body that response carries
ResponseHeaders(f) ==
    IF f.hasLength
    THEN << <<"content-length", DecStr(Len(ServerResponse(f, <<>>).body))>> >>
    ELSE <<>>

(* ------------------------- the code's helpers -------------------------- *)
\* int(os.environ.get("DANDI_MAX_CHUNK_SIZE", 1024 * 1024 * 8))
LoadChunkSize(env) ==
    IF env.set THEN ParseInt(env.val) ELSE [ok |-> TRUE, val |-> DefaultChunkSize]

\* int(result.headers.get('content-length', 0))
TotalSize(hdrs) ==
    IF hdrs # <<>> /\ hdrs[1][1] = "content-length"
    THEN ParseInt(hdrs[1][2]).val
    ELSE 0

\* a step estimate that rounds up instead of down
TotalStepsCeil(total_size, c) == FloorDiv(total_size + c - 1, c)

\* total_size // chunk_size
TotalSteps(total_size, c) == FloorDiv(total_size, c)

\* f"bytes={start_at}-"
FormatRange(s) == RangePrefix \o IntStr(s) \o <<"-">>

\* a Range header only from the second byte on
RequestHeadersFromTwo(s) ==
    IF s > 1 THEN << <<"Range", FormatRange(s)>> >> ELSE <<>>

\* headers = None; if start_at > 0: headers = {"Range": ...}
RequestHeaders(s) ==
    IF s > 0 THEN << <<"Range", FormatRange(s)>> >> ELSE <<>>

\* a status check that lets client errors through
RaisesForServerError(status) == status >= 500

\* result.raise_for_status(): raises for a 4xx or 5xx status
RaisesForStatus(status) == status >= 400

\* a producer without the emptiness test
KeepAnyChunk(chunk) == TRUE

\* if chunk: yield chunk
KeepChunk(chunk) == chunk # <<>>

\* the chunk size download_with_progressbar hands to
\* get_download_file_iter_with_steps(file): the parameter's default
DownloadChunkSize(arg, dflt) == dflt

\* a file opened for appending
OpenAB(old) == old

\* open(filepath, "wb"): the file's content right after a successful open
OpenWB(old) == <<>>

\* a write that starts over at position 0 and drops what was there
FpWriteRewind(old, chunk) == chunk

\* a write that puts the chunk in front of what was there
FpWriteFront(old, chunk) == chunk \o old

\* fp.write(chunk): the file's content after the write
FpWrite(old, chunk) == old \o chunk

\* a handle that is closed on normal completion only, by the last statement
WithExitLeak(h) == h

\* leaving the with block, normally or by an exception, closes fp
WithExit(h) == IF h = "open" THEN "closed" ELSE h

(* ------------------------------ state ---------------------------------- *)
VARIABLES
    envVar,          \* DANDI_MAX_CHUNK_SIZE when the module is loaded
    MAX_CHUNK_SIZE,  \* the module-level value, None when loading failed
    pc,              \* where the current call stands
    mode,            \* "download": download_with_progressbar;
                     \* "direct": the caller drives prepare and the producer
    file,            \* the remote file of the current call
    arg_chunk_size,  \* chunk_size parameter of download_with_progressbar
    chunk_size,      \* chunk_size of get_download_file_iter_with_steps
    total_steps,     \* steps_dict["total_steps"]
    start_at,        \* start_at of downloader
    headers,         \* headers of the producer's request
    gets,            \* GET requests issued by the current call
    status,          \* status of the producer's response, 0 before it
    raw,             \* body bytes the transport has not handed over yet
    yielded,         \* the chunks the producer has yielded, in order
    written,         \* the chunks passed to fp.write, in order
    dropped,         \* whether the producer has skipped a zero-length chunk
    exists,          \* whether there is a file at filepath
    content,         \* its content
    fp,              \* "none", "open" or "closed"
    exc,             \* the exception the call ended with, None otherwise
    pre,             \* the file at filepath when the current call began
    last             \* how the last download before this call ended

vars == <<envVar, MAX_CHUNK_SIZE, pc, mode, file, arg_chunk_size, chunk_size,
          total_steps, start_at, headers, gets, status, raw, yielded, written,
          dropped, exists, content, fp, exc, pre, last>>

fsVars == <<exists, content>>

\* the state of one call, as it is before the call and after its frame is gone
NoCall ==
    /\ mode = "none"
    /\ file = [status |-> 200, data |-> <<>>, hasLength |-> FALSE]
    /\ arg_chunk_size = None
    /\ chunk_size = None
    /\ total_steps = None
    /\ start_at = 0
    /\ headers = <<>>
    /\ gets = 0
    /\ status = 0
    /\ raw = <<>>
    /\ yielded = <<>>
    /\ written = <<>>
    /\ dropped = FALSE
    /\ fp = "none"
    /\ exc = None
    /\ pre = [exists |-> FALSE, content |-> <<>>]

moduleVars == <<envVar, MAX_CHUNK_SIZE>>

\* positions in which the current call is over
Terminal == {"returned", "exhausted", "raised"}

TransferErrors == {"HTTPError", "ConnectionError"}

Init ==
    /\ envVar \in EnvValues
    /\ LET r == LoadChunkSize(envVar)
       IN  IF r.ok THEN MAX_CHUNK_SIZE = r.val /\ pc = "idle"
           ELSE MAX_CHUNK_SIZE = None /\ pc = "import_error"
    /\ NoCall
    /\ exists = FALSE
    /\ content = <<>>
    /\ last = "none"

(* ------------------- get_download_file_iter_with_steps ----------------- *)
\* The body of get_download_file_iter_with_steps(f, c) from a fresh call:
\* the first GET (which may fail to connect, and whose status is not
\* looked at), then the step estimate, which divides by c.
Prepare(f, c, next) ==
    /\ file' = f
    /\ chunk_size' = c
    /\ start_at' = 0
    /\ headers' = <<>>
    /\ gets' = 1
    /\ status' = 0
    /\ raw' = <<>>
    /\ yielded' = <<>>
    /\ written' = <<>>
    /\ dropped' = FALSE
    /\ fp' = "none"
    /\ pre' = [exists |-> exists, content |-> content]
    /\ \/ /\ total_steps' = None
          /\ exc' = "ConnectionError"
          /\ pc' = "raised"
       \/ IF c = 0
          THEN /\ total_steps' = None
               /\ exc' = "ZeroDivisionError"
               /\ pc' = "raised"
          ELSE /\ total_steps' = TotalSteps(TotalSize(ResponseHeaders(f)), c)
               /\ exc' = None
               /\ pc' = next
    /\ UNCHANGED <<fsVars, moduleVars>>

\* the caller calls get_download_file_iter_with_steps(f, c) itself
PrepareCall(f, c) ==
    /\ pc = "idle"
    /\ mode' = "direct"
    /\ last' = last
    /\ arg_chunk_size' = None
    /\ Prepare(f, c, "prepared")

\* the caller calls downloader(s) of the pair it got and starts iterating:
\* the request, raise_for_status
DownloaderCall(s) ==
    /\ pc = "prepared"
    /\ mode = "direct"
    /\ start_at' = s
    /\ headers' = RequestHeaders(s)
    /\ gets' = gets + 1
    /\ \/ /\ status' = 0
          /\ raw' = <<>>
          /\ exc' = "ConnectionError"
          /\ pc' = "raised"
       \/ LET r == ServerResponse(file, RequestHeaders(s))
          IN  /\ status' = r.status
              /\ IF RaisesForStatus(r.status)
                 THEN raw' = <<>> /\ exc' = "HTTPError" /\ pc' = "raised"
                 ELSE raw' = r.body /\ exc' = None /\ pc' = "streaming"
    /\ UNCHANGED <<moduleVars, mode, file, arg_chunk_size, chunk_size,
                   total_steps, yielded, written, dropped, fsVars, fp,
                   pre, last>>

(* ----------------------- download_with_progressbar --------------------- *)
\* download_with_progressbar(f, filepath, a) up to the return of
\* get_download_file_iter_with_steps(file)
DownloadCall(f, a) ==
    /\ pc = "idle"
    /\ mode' = "download"
    /\ last' = last
    /\ arg_chunk_size' = a
    /\ Prepare(f, DownloadChunkSize(a, MAX_CHUNK_SIZE), "prepared")

\* with open(filepath, "wb") as fp: the open succeeds and truncates, or fails
DownloadOpen ==
    /\ pc = "prepared"
    /\ mode = "download"
    /\ \/ /\ exists' = TRUE
          /\ content' = OpenWB(content)
          /\ fp' = "open"
          /\ pc' = "opened"
          /\ exc' = None
       \/ /\ UNCHANGED <<fsVars, fp>>
          /\ exc' = "OSError"
          /\ pc' = "raised"
    /\ UNCHANGED <<moduleVars, mode, file, arg_chunk_size, chunk_size,
                   total_steps, start_at, headers, gets, status, raw, yielded,
                   written, dropped,
                   pre, last>>

\* first next() on tqdm(downloader(0)): the producer's request and
\* raise_for_status; an exception leaves the with block
DownloadRequest ==
    /\ pc = "opened"
    /\ mode = "download"
    /\ start_at' = 0
    /\ headers' = RequestHeaders(0)
    /\ gets' = gets + 1
    /\ \/ /\ status' = 0
          /\ raw' = <<>>
          /\ exc' = "ConnectionError"
          /\ pc' = "raised"
          /\ fp' = WithExit(fp)
       \/ LET r == ServerResponse(file, RequestHeaders(0))
          IN  /\ status' = r.status
              /\ IF RaisesForStatus(r.status)
                 THEN /\ raw' = <<>>
                      /\ exc' = "HTTPError"
                      /\ pc' = "raised"
                      /\ fp' = WithExit(fp)
                 ELSE /\ raw' = r.body
                      /\ exc' = None
                      /\ pc' = "streaming"
                      /\ fp' = fp
    /\ UNCHANGED <<moduleVars, mode, file, arg_chunk_size, chunk_size,
                   total_steps, yielded, written, dropped, fsVars,
                   pre, last>>

(* ------------------------------ streaming ------------------------------ *)
\* lengths of the chunk result.iter_content(chunk_size=c) can hand over next:
\* up to c bytes of what is left, possibly none; a negative c is taken as
\* "read everything" by the transports that accept it
ChunkLengths(c, left) ==
    IF c > 0 THEN 0..Min(c, Len(left)) ELSE {Len(left)}

\* one turn of "for chunk in result.iter_content(...)": an empty chunk is
\* skipped, any other is yielded, and in a download written to fp (the write
\* can fail, which leaves the with block)
StreamChunk(n) ==
    /\ pc = "streaming"
    /\ n \in ChunkLengths(chunk_size, raw)
    /\ LET chunk == SubSeq(raw, 1, n)
       IN  /\ raw' = SubSeq(raw, n + 1, Len(raw))
           /\ IF KeepChunk(chunk)
              THEN /\ yielded' = Append(yielded, chunk)
                   /\ dropped' = dropped
                   /\ IF mode = "download"
                      THEN \/ /\ written' = Append(written, chunk)
                              /\ content' = FpWrite(content, chunk)
                              /\ UNCHANGED <<pc, exc, fp>>
                           \/ /\ UNCHANGED <<written, content>>
                              /\ exc' = "OSError"
                              /\ pc' = "raised"
                              /\ fp' = WithExit(fp)
                      ELSE UNCHANGED <<written, content, pc, exc, fp>>
              ELSE /\ dropped' = TRUE
                   /\ UNCHANGED <<yielded, written, content, pc, exc, fp>>
    /\ UNCHANGED <<moduleVars, mode, file, arg_chunk_size, chunk_size,
                   total_steps, start_at, headers, gets, status, exists,
                   pre, last>>

\* the body is exhausted: the generator ends, the for loop and the with
\* block are left, download_with_progressbar returns
StreamEnd ==
    /\ pc = "streaming"
    /\ raw = <<>>
    /\ pc' = IF mode = "download" THEN "returned" ELSE "exhausted"
    /\ fp' = WithExit(fp)
    /\ UNCHANGED <<moduleVars, mode, file, arg_chunk_size, chunk_size,
                   total_steps, start_at, headers, gets, status, raw, yielded,
                   written, dropped, fsVars, exc,
                   pre, last>>

\* the transport raises instead of handing a chunk over: the connection
\* breaks (ConnectionError), or it rejects a negative chunk size (ValueError)
StreamFail(e) ==
    /\ pc = "streaming"
    /\ e = "ValueError" => chunk_size < 0 /\ yielded = <<>>
    /\ exc' = e
    /\ pc' = "raised"
    /\ fp' = WithExit(fp)
    /\ UNCHANGED <<moduleVars, mode, file, arg_chunk_size, chunk_size,
                   total_steps, start_at, headers, gets, status, raw, yielded,
                   written, dropped, fsVars,
                   pre, last>>

\* the call is over and its frame is discarded; what stays is the module and
\* the file system
Finish ==
    /\ pc \in Terminal
    /\ pc' = "idle"
    /\ last' = IF mode = "download" THEN pc ELSE last
    /\ mode' = "none"
    /\ file' = [status |-> 200, data |-> <<>>, hasLength |-> FALSE]
    /\ arg_chunk_size' = None
    /\ chunk_size' = None
    /\ total_steps' = None
    /\ start_at' = 0
    /\ headers' = <<>>
    /\ gets' = 0
    /\ status' = 0
    /\ raw' = <<>>
    /\ yielded' = <<>>
    /\ written' = <<>>
    /\ dropped' = FALSE
    /\ fp' = "none"
    /\ exc' = None
    /\ pre' = [exists |-> FALSE, content |-> <<>>]
    /\ UNCHANGED <<moduleVars, fsVars>>

\* the chunk sizes the caller passes to download_with_progressbar: explicit
\* positive ones, or the default of the parameter
DownloadArgs == (1..MaxChunk) \cup {MAX_CHUNK_SIZE}

\* the chunk sizes the caller passes to get_download_file_iter_with_steps
PrepareArgs == ChunkArgs \cup {MAX_CHUNK_SIZE}

\* downloads, one after the other, to the same path
Next ==
    \/ /\ pc = "idle"
       /\ \E f \in Files : \E a \in DownloadArgs : DownloadCall(f, a)
    \/ DownloadOpen
    \/ DownloadRequest
    \/ \E n \in 0..MaxLen : StreamChunk(n)
    \/ StreamEnd
    \/ \E e \in {"ConnectionError", "ValueError"} : StreamFail(e)
    \/ Finish

Spec == Init /\ [][Next]_vars

\* a caller that drives get_download_file_iter_with_steps and the producer
\* itself, from any offset
NextProducer ==
    \/ /\ pc = "idle"
       /\ \E f \in Files : \E c \in PrepareArgs : PrepareCall(f, c)
    \/ \E s \in 0..MaxLen : DownloaderCall(s)
    \/ \E n \in 0..MaxLen : StreamChunk(n)
    \/ StreamEnd
    \/ \E e \in {"ConnectionError", "ValueError"} : StreamFail(e)
    \/ Finish

SpecProducer == Init /\ [][NextProducer]_vars

(* ------------------------------ properties ----------------------------- *)
\* get_download_file_iter_with_steps has returned its pair in this call
PrepareReturned ==
    /\ mode # "none"
    /\ ~(pc = "raised" /\ gets = 1 /\ exc \in {"ConnectionError", "ZeroDivisionError"})

\* the content-length of the first response of this call
ContentLength ==
    Len(IF file.status = 200 THEN file.data ELSE ErrorBody)

\* C1: when download_with_progressbar returns normally the destination file
\* exists and holds the resource byte for byte, and the chunks written are
\* the chunks produced, in the order they were produced
C1_DownloadCopies ==
    pc = "returned" =>
        /\ exists
        /\ content = file.data
        /\ Len(content) = Len(file.data)
        /\ written = yielded

\* a download that took several chunks, the last one shorter than chunk_size
C1_Witness ==
    /\ pc = "returned"
    /\ chunk_size > 0
    /\ Len(written) >= 2
    /\ Len(written[1]) = chunk_size
    /\ Len(written[Len(written)]) < chunk_size

\* C2 as stated: a download whose producer request is answered 404 raises
\* and leaves no file at a path that did not exist before the call
C2_NoFileOn404 ==
    (mode = "download" /\ status = 404 /\ ~pre.exists) =>
        (pc = "raised" /\ exc = "HTTPError" /\ ~exists)

\* C2 amended: a download whose producer request is answered 404 raises
\* HTTPError with nothing written and the handle closed, and leaves an empty
\* file at the path, whether or not there was one before
C2_EmptyFileOn404 ==
    (mode = "download" /\ status = 404) =>
        /\ pc = "raised"
        /\ exc = "HTTPError"
        /\ written = <<>>
        /\ fp = "closed"
        /\ exists
        /\ content = <<>>

\* the 404 of a download to a path where there was no file
C2_Witness ==
    /\ mode = "download"
    /\ status = 404
    /\ pc = "raised"
    /\ ~pre.exists

\* C3: the producer's request carries "Range: bytes=<start_at>-" exactly when
\* start_at > 0, and for 0 < start_at <= length the first start_at bytes of
\* the resource followed by everything the producer yielded, once it is
\* finished without a broken connection, are the resource
C3_Resume ==
    /\ gets = 2 =>
          headers = IF start_at > 0
                    THEN << <<"Range", <<"b", "y", "t", "e", "s", "=">>
                                       \o DecStr(start_at) \o <<"-">> >> >>
                    ELSE <<>>
    /\ ( /\ mode = "direct"
         /\ file.status = 200
         /\ 0 < start_at
         /\ start_at <= Len(file.data)
         /\ pc = "exhausted" \/ (pc = "raised" /\ exc = "HTTPError") )
       => SubSeq(file.data, 1, start_at) \o Flatten(yielded) = file.data

\* a resumed stream that delivered the rest of the resource in chunks
C3_Witness ==
    /\ mode = "direct"
    /\ pc = "exhausted"
    /\ 0 < start_at
    /\ start_at < Len(file.data)
    /\ yielded # <<>>
    /\ Flatten(yielded) # file.data

\* C4: with a positive chunk size every chunk the producer has yielded has a
\* length in 1..chunk_size, and no chunk passed to fp.write is empty
C4_ChunkLengths ==
    (mode # "none" /\ chunk_size > 0) =>
        /\ \A i \in 1..Len(yielded) :
              0 < Len(yielded[i]) /\ Len(yielded[i]) <= chunk_size
        /\ \A i \in 1..Len(written) : Len(written[i]) > 0

\* a download in which the transport handed over an empty chunk, which was
\* skipped, and other chunks, which were written
C4_Witness ==
    /\ mode = "download"
    /\ chunk_size > 0
    /\ dropped
    /\ Len(written) >= 2

\* C5: with a positive chunk size the step estimate is content-length div
\* chunk_size, 0 when the header is absent or zero, at every point of the
\* call whatever chunks the transport has handed over, and the estimate
\* raises no error
C5_TotalSteps ==
    (mode # "none" /\ chunk_size > 0) =>
        /\ exc # "ZeroDivisionError"
        /\ PrepareReturned =>
              /\ total_steps =
                    (IF file.hasLength THEN ContentLength ELSE 0) \div chunk_size
              /\ (~file.hasLength \/ ContentLength = 0) => total_steps = 0

\* a finished stream whose number of chunks is not the estimate
C5_Witness ==
    /\ pc \in {"returned", "exhausted"}
    /\ file.hasLength
    /\ total_steps >= 1
    /\ Len(yielded) > total_steps

\* C6: a download to a path where a file exists truncates it when it opens
\* it, and on return the file holds the resource of this call alone
C6_Overwrite ==
    (mode = "download" /\ pre.exists) =>
        /\ pc = "opened" => content = <<>>
        /\ pc = "returned" => content = file.data

\* a download that returned over what a failed download had left, a longer
\* file that was not a prefix of the new resource
C6_Witness ==
    /\ pc = "returned"
    /\ last = "raised"
    /\ pre.exists
    /\ pre.content # <<>>
    /\ ~IsPrefix(pre.content, file.data)
    /\ Len(pre.content) > Len(file.data)

\* C7: in no terminal state of a call is the handle open, and a chunk is
\* written only while it is open
C7_HandleClosed ==
    /\ [](pc \in Terminal => fp # "open")
    /\ [][Len(written') > Len(written) => (fp = "open" /\ fp' = "open")]_vars

\* a download that failed in the middle of the stream, its handle closed
C7_Witness ==
    /\ pc = "raised"
    /\ mode = "download"
    /\ written # <<>>
    /\ raw # <<>>
    /\ fp = "closed"

\* C8 as stated: the step estimate's division and the transport reads only
\* ever run with a positive chunk size
C8_PositiveChunkSize ==
    (mode # "none" /\ ~(pc = "raised" /\ gets = 1 /\ exc = "ConnectionError"))
        => chunk_size > 0

\* C9 as stated: the chunk size in effect in a download is the one passed to
\* download_with_progressbar
C9_ChunkSizePassed ==
    mode = "download" => chunk_size = arg_chunk_size

\* C10: a download that raised a transfer error from the producer made two
\* GET requests in all, has its handle closed and left at the path exactly
\* the chunks written before, a prefix of the resource; and once a call has
\* raised, the file is not touched and no request is made by that call
C10_FailureTerminal ==
    /\ []( (mode = "download" /\ pc = "raised" /\ gets = 2
               /\ exc \in TransferErrors) =>
              /\ exists
              /\ content = Flatten(written)
              /\ IsPrefix(content, file.data)
              /\ fp = "closed" )
    /\ [](gets <= 2)
    /\ [][pc = "raised" => (pc' = "idle" /\ UNCHANGED fsVars)]_vars

\* a download broken after some chunks were written
C10_Witness ==
    /\ mode = "download"
    /\ pc = "raised"
    /\ exc = "ConnectionError"
    /\ Len(written) >= 2
    /\ Len(content) < Len(file.data)

====
